---- MODULE Spec2Model ----
(***************************************************************************)
(* State-machine model of src/AR/neurocard.py: the training loop           *)
(* (run_epoch), the ordering builder (MakeMade), the error metric          *)
(* (NeuroCard.ErrorMetric), the assertion hook                             *)
(* (NeuroCard._maybe_check_asserts) and the trial controller               *)
(* (NeuroCard.setup, LoadCheckpoint, step, evaluate).                      *)
(*                                                                         *)
(* Python's None is the string "None".  Real numbers are exact fractions   *)
(* <<numerator, denominator>> in lowest terms.  Column indices are 0-based *)
(* as in the source; positions in a TLA+ sequence are 1-based.             *)
(***************************************************************************)
EXTENDS Integers, Sequences, FiniteSets, TLC

None == "None"

\* Python's None in a slot that otherwise holds an integer.
NoInt == -1

\* ------------------------------------------------------------------------
\* Bounds of the model.
\* ------------------------------------------------------------------------
MaxCard == 7
MaxCols == 4
MaxOrders == 2
MaxCells == 8
MaxAccum == 3
MaxSteps == 3
MaxUpto == 3
MaxBatches == 4
MaxEpochs == 2
MaxSamples == 2
MaxFiles == 2
MaxCkptEpoch == 2
MaxStepCalls == 2
CtlQueries == 1
CtlEstimators == 1
MaxQueries == 3
MaxEstimators == 2
MaxKeys == 2
MaxVal == 1
MaxOrderLen == 3
MaxOrderingCalls == 2

\* ------------------------------------------------------------------------
\* Variables.
\* ------------------------------------------------------------------------
VARIABLES
  \* ErrorMetric call
  m_pc, m_est, m_card, m_err,
  \* MakeMade: position, cols_to_train (the kind of each column's name),
  \* special_orders, order_content_only, order_indicators_at_front,
  \* factor_table.fact_col_mapping, the local list `orders`, the loop index
  \* of the first loop and model.orderings
  o_pc, o_cols, o_special, o_content_only, o_ind_front, o_factor_table,
  o_fact, o_orders, o_i, o_has_orderings, o_model_orderings,
  \* run_epoch: position and error; the arguments (split, neurocard_instance
  \* given, accum_iter, max_steps, upto, batches the loader yields, dataset is
  \* an IterableDataset, epochs, epoch_num, constant_lr, custom_lr_lambda
  \* given, lr_scheduler given, warmups, len(model.orderings))
  t_pc, t_error, t_split, t_instance, t_accum_iter, t_max_step, t_upto,
  t_nbatches, t_iterable, t_epochs, t_epoch_num, t_constant_lr, t_custom,
  t_sched_arg, t_warmups, t_nsamples,
  \* run_epoch locals: step, lr_scheduler is not None, len(losses), loss (the
  \* batch it was computed from), lr
  t_step, t_sched, t_nlosses, t_loss, t_lr,
  \* the optimizer's rate, the number of times the epoch wrote it and the
  \* policies that set it; the batches whose gradient is accumulated, the
  \* gradient each optimizer step applied, the batches whose gradient was
  \* zeroed unapplied and the batches backpropagated; the steps at which the
  \* optimizer and the scheduler stepped; the calls of the last loop pass;
  \* its forward passes; neurocard_instance.lloss; the returned value
  t_opt_lr, t_lr_writes, t_policies, t_grad, t_applied, t_dropped, t_backward,
  t_opt_steps, t_sched_steps, t_events, t_forwards, t_lloss, t_ret,
  \* NeuroCard: position and error, setup has completed, the configuration
  \* setup read (lr_scheduler, checkpoint_to_load given, files the pattern
  \* matches, epoch), mode, self.lr_scheduler, self.custom_lr_lambda given,
  \* the model parameters / epoch / optimizer state / lloss, the record
  \* LoadCheckpoint read, the loaded workload,
  \* num_eval_queries_at_checkpoint_load, len(eval_psamples)
  c_pc, c_error, c_setup_done, c_cfg, c_mode, c_lr_scheduler,
  c_custom_lr_lambda, c_state, c_loaded, c_workload, c_num_eval, c_nest,
  \* evaluate: i, num_queries, the estimators' logs, err_queries, results,
  \* the step() calls that returned and the last returned value
  c_i, c_num_queries, c_errs, c_err_queries, c_results, c_steps, c_ret,
  \* _maybe_check_asserts call: position, self.asserts, the arguments
  \* results and returns, and the outcome
  a_pc, a_asserts, a_results, a_returns, a_out,
  \* MakeOrdering calls: position and error, self.order (given, and the list
  \* it holds now and held when configured), self.order_seed with the
  \* arrangement a shuffle under that seed makes, the first `if` applies,
  \* len(table.columns), and what each call returned (whether the list is
  \* self.order itself, and its value on return)
  f_pc, f_error, f_order_given, f_order, f_order0, f_order_seed, f_shuffle,
  f_natural, f_ncols, f_rets

metricVars == <<m_pc, m_est, m_card, m_err>>
orderVars == <<o_pc, o_cols, o_special, o_content_only, o_ind_front,
               o_factor_table, o_fact, o_orders, o_i, o_has_orderings,
               o_model_orderings>>
trainVars == <<t_pc, t_error, t_split, t_instance, t_accum_iter, t_max_step,
               t_upto, t_nbatches, t_iterable, t_epochs, t_epoch_num,
               t_constant_lr, t_custom, t_sched_arg, t_warmups, t_nsamples,
               t_step, t_sched, t_nlosses, t_loss, t_lr, t_opt_lr, t_lr_writes,
               t_policies, t_grad, t_applied, t_dropped, t_backward, t_opt_steps,
               t_sched_steps, t_events, t_forwards, t_lloss, t_ret>>
ctlVars == <<c_pc, c_error, c_setup_done, c_cfg, c_mode, c_lr_scheduler,
             c_custom_lr_lambda, c_state, c_loaded, c_workload, c_num_eval,
             c_nest, c_i, c_num_queries, c_errs, c_err_queries, c_results,
             c_steps, c_ret>>
assertVars == <<a_pc, a_asserts, a_results, a_returns, a_out>>
fixedVars == <<f_pc, f_error, f_order_given, f_order, f_order0, f_order_seed,
               f_shuffle, f_natural, f_ncols, f_rets>>
vars == <<metricVars, orderVars, trainVars, ctlVars, assertVars, fixedVars>>
notMetricVars == <<orderVars, trainVars, ctlVars, assertVars, fixedVars>>
notOrderVars == <<metricVars, trainVars, ctlVars, assertVars, fixedVars>>
notTrainVars == <<metricVars, orderVars, ctlVars, assertVars, fixedVars>>
notCtlVars == <<metricVars, orderVars, trainVars, assertVars, fixedVars>>
notAssertVars == <<metricVars, orderVars, trainVars, ctlVars, fixedVars>>
notFixedVars == <<metricVars, orderVars, trainVars, ctlVars, assertVars>>

NoRecord == [model |-> "", epoch |-> NoInt, opt |-> "", loss |-> ""]

NoWorkload == [n |-> NoInt, cards |-> <<>>, not_support |-> {}]

\* A component that takes no part in a specification stays idle.
MetricIdle ==
  /\ m_pc = "idle" /\ m_est = 0 /\ m_card = 0 /\ m_err = None

OrderIdle ==
  /\ o_pc = "idle" /\ o_cols = <<>> /\ o_special = 0
  /\ o_content_only = TRUE /\ o_ind_front = TRUE
  /\ o_factor_table = FALSE /\ o_fact = <<>>
  /\ o_orders = <<>> /\ o_i = 0
  /\ o_has_orderings = FALSE /\ o_model_orderings = <<>>
TrainIdle ==
  /\ t_pc = "idle" /\ t_error = "" /\ t_split = "train" /\ t_instance = FALSE
  /\ t_accum_iter = 1 /\ t_max_step = NoInt /\ t_upto = NoInt
  /\ t_nbatches = 0 /\ t_iterable = FALSE /\ t_epochs = 1 /\ t_epoch_num = 0
  /\ t_constant_lr = NoInt /\ t_custom = FALSE /\ t_sched_arg = FALSE
  /\ t_warmups = <<1000, 1>> /\ t_nsamples = 1
  /\ t_step = 0 /\ t_sched = FALSE /\ t_nlosses = 0 /\ t_loss = <<>>
  /\ t_lr = <<"initial", 0, 0>> /\ t_opt_lr = <<"initial", 0, 0>>
  /\ t_lr_writes = 0 /\ t_policies = {}
  /\ t_grad = {} /\ t_applied = <<>> /\ t_dropped = {} /\ t_backward = {}
  /\ t_opt_steps = <<>> /\ t_sched_steps = <<>> /\ t_events = <<>>
  /\ t_forwards = 0 /\ t_lloss = <<>> /\ t_ret = ""
CtlIdle ==
  /\ c_pc = "idle" /\ c_error = "" /\ c_setup_done = FALSE
  /\ c_cfg = [lr_scheduler |-> "None", checkpoint_to_load |-> FALSE, nfiles |-> 0,
              epoch |-> NoInt, asserts |-> <<>>]
  /\ c_mode = "INFERENCE" /\ c_lr_scheduler = "None"
  /\ c_custom_lr_lambda = FALSE
  /\ c_state = [model |-> "init", epoch |-> 0, opt |-> "fresh", lloss |-> "unset"]
  /\ c_loaded = NoRecord
  /\ c_workload = NoWorkload /\ c_num_eval = 0 /\ c_nest = 1
  /\ c_i = 0 /\ c_num_queries = 0 /\ c_errs = <<>> /\ c_err_queries = <<>>
  /\ c_results = <<>> /\ c_steps = 0 /\ c_ret = <<>>
AssertIdle ==
  /\ a_pc = "idle" /\ a_asserts = <<>> /\ a_results = <<>>
  /\ a_returns = <<>> /\ a_out = <<>>
FixedIdle ==
  /\ f_pc = "idle" /\ f_error = "" /\ f_order_given = FALSE /\ f_order = <<>>
  /\ f_order0 = <<>> /\ f_order_seed = "None" /\ f_shuffle = <<>>
  /\ f_natural = FALSE /\ f_ncols = 0 /\ f_rets = <<>>

\* ------------------------------------------------------------------------
\* Exact fractions.
\* ------------------------------------------------------------------------
RECURSIVE Gcd(_, _)
Gcd(a, b) == IF b = 0 THEN a ELSE Gcd(b, a % b)

Frac(n, d) == LET g == Gcd(n, d) IN <<n \div g, d \div g>>

FracOfInt(n) == <<n, 1>>

FracLeq(x, y) == x[1] * y[2] <= y[1] * x[2]

FracMax(x, y) == IF FracLeq(x, y) THEN y ELSE x

\* ------------------------------------------------------------------------
\* NeuroCard.ErrorMetric
\* ------------------------------------------------------------------------
\* Mutant of the last line: the smaller of the two ratios is returned.
ErrorMetricMinRatio(est_card, card) ==
  IF card = 0 /\ est_card # 0 THEN FracOfInt(est_card)
  ELSE IF card # 0 /\ est_card = 0 THEN FracOfInt(card)
  ELSE IF card = 0 /\ est_card = 0 THEN FracOfInt(1)
  ELSE IF FracLeq(Frac(est_card, card), Frac(card, est_card))
         THEN Frac(est_card, card) ELSE Frac(card, est_card)

ErrorMetricNoZeroCase(est_card, card) ==
  IF card = 0 /\ est_card # 0 THEN FracOfInt(1)
  ELSE IF card # 0 /\ est_card = 0 THEN FracOfInt(card)
  ELSE IF card = 0 /\ est_card = 0 THEN FracOfInt(1)
  ELSE FracMax(Frac(est_card, card), Frac(card, est_card))

ErrorMetric(est_card, card) ==
  IF card = 0 /\ est_card # 0 THEN FracOfInt(est_card)
  ELSE IF card # 0 /\ est_card = 0 THEN FracOfInt(card)
  ELSE IF card = 0 /\ est_card = 0 THEN FracOfInt(1)
  ELSE FracMax(Frac(est_card, card), Frac(card, est_card))

\* ------------------------------------------------------------------------
\* MakeMade: the special orderings.
\* ------------------------------------------------------------------------
\* Column names by what MakeMade tests: "content" does not start with '__',
\* "ind" starts with '__in_', "virt" starts with '__' but not with '__in_'.
ColKinds == {"content", "ind", "virt"}

SeqRange(s) == {s[p] : p \in 1..Len(s)}

\* np.arange(lo, hi)
Arange(lo, hi) == lo..(hi - 1)

\* The possible results of RandomState(seed).permutation(S): the generator is
\* not modelled, every arrangement of S is a possible result.
RngPermutations(S) ==
  {f \in [1..Cardinality(S) -> S] : \A p, q \in 1..Cardinality(S) : f[p] = f[q] => p = q}

\* len(np.unique(order))
NumUnique(order) == Cardinality(SeqRange(order))

\* np.delete(order, np.argwhere(order == v))
NpDelete(order, v) == SelectSeq(order, LAMBDA x : x # v)

\* The IndexError numpy raises, as a value of the same shape as an ordering
\* and as an index.
IndexError == <<-1>>
NoIndex == -1

\* np.argwhere(order == v)[0][0]; NoIndex when v does not occur (IndexError).
FirstIndex(order, v) ==
  IF v \in SeqRange(order)
    THEN (CHOOSE p \in 1..Len(order) : order[p] = v /\ \A q \in 1..(p - 1) : order[q] # v) - 1
    ELSE NoIndex

\* np.insert(order, idx, v), idx 0-based; IndexError when idx is beyond the
\* end.
NpInsert(order, idx, v) ==
  IF idx = NoIndex \/ order = IndexError THEN IndexError
  ELSE IF idx > Len(order) THEN IndexError
  ELSE SubSeq(order, 1, idx) \o <<v>> \o SubSeq(order, idx + 1, Len(order))

\* Mutant of the inner loop: the sub-variable is re-inserted right after the
\* first one (offset 1 instead of j).
RECURSIVE CorrectSubvarsOffsetOne(_, _, _)
CorrectSubvarsOffsetOne(order, sub_cols, j) ==
  IF order = IndexError \/ j > Len(sub_cols) - 1 THEN order
  ELSE LET first_subvar_index == sub_cols[1]
           subvar_index == sub_cols[j + 1]
           deleted == NpDelete(order, subvar_index)
           at == FirstIndex(deleted, first_subvar_index)
           inserted == NpInsert(deleted, IF at = NoIndex THEN NoIndex ELSE at + 1, subvar_index)
       IN CorrectSubvarsOffsetOne(inserted, sub_cols, j + 1)

\* One pass of the inner loop `for j in range(1, len(sub_cols))`: sub_cols
\* holds the indices cols_to_train.index(sub_cols[j]).
RECURSIVE CorrectSubvars(_, _, _)
CorrectSubvars(order, sub_cols, j) ==
  IF order = IndexError \/ j > Len(sub_cols) - 1 THEN order
  ELSE LET first_subvar_index == sub_cols[1]
           subvar_index == sub_cols[j + 1]
           deleted == NpDelete(order, subvar_index)
           at == FirstIndex(deleted, first_subvar_index)
           inserted == NpInsert(deleted, IF at = NoIndex THEN NoIndex ELSE at + j, subvar_index)
       IN CorrectSubvars(inserted, sub_cols, j + 1)

CorrectColumn(order, sub_cols) == CorrectSubvars(order, sub_cols, 1)

\* `for orig_col, sub_cols in factor_table.fact_col_mapping.items()`
RECURSIVE CorrectOrder(_, _, _)
CorrectOrder(order, mapping, c) ==
  IF order = IndexError \/ c > Len(mapping) THEN order
  ELSE CorrectOrder(CorrectColumn(order, mapping[c]), mapping, c + 1)

\* utils.InvertOrder: inv[order[i]] = i.
InvertOrder(order) ==
  [p \in 1..Len(order) |-> (CHOOSE q \in 1..Len(order) : order[q] = p - 1) - 1]

\* The fact_col_mapping of a factorized table over n columns: the columns
\* of one original column are adjacent and in sub-variable order.
RECURSIVE Groupings(_, _)
Groupings(lo, n) ==
  IF lo = n THEN {<<>>}
  ELSE UNION {{<<[p \in 1..size |-> lo + p - 1]>> \o rest : rest \in Groupings(lo + size, n)}
              : size \in 1..(n - lo)}

\* Mutant: the indicator bracket is laid out from the number of virtual
\* columns instead of the number of '__in_' columns.
ContentOnlyOrdersVirtualCount(cols, indicators_at_front) ==
  LET n == Len(cols)
      num_content == Cardinality({p \in 1..n : cols[p] = "content"})
      num_indicators == Cardinality({p \in 1..n : cols[p] = "ind"})
  IN {IF indicators_at_front THEN inds \o content \o fanouts
                             ELSE content \o inds \o fanouts :
        content \in RngPermutations(Arange(0, num_content)),
        inds \in RngPermutations(Arange(num_content, num_content + num_indicators)),
        fanouts \in RngPermutations(Arange(num_content, n - num_indicators))}

\* The raw orderings one iteration of the first loop can build.
ContentOnlyOrders(cols, indicators_at_front) ==
  LET n == Len(cols)
      num_content == Cardinality({p \in 1..n : cols[p] = "content"})
      num_indicators == Cardinality({p \in 1..n : cols[p] = "ind"})
  IN {IF indicators_at_front THEN inds \o content \o fanouts
                             ELSE content \o inds \o fanouts :
        content \in RngPermutations(Arange(0, num_content)),
        inds \in RngPermutations(Arange(num_content, num_content + num_indicators)),
        fanouts \in RngPermutations(Arange(num_content + num_indicators, n))}

JointOrders(cols) == RngPermutations(Arange(0, Len(cols)))

\* The arguments of a call.  The joint branch reads neither the column names
\* nor order_indicators_at_front, so they are fixed there.
OrderStart ==
  /\ o_pc = "start"
  /\ o_special \in 0..MaxOrders
  /\ o_content_only \in BOOLEAN
  /\ o_ind_front \in BOOLEAN
  /\ \E n \in 1..MaxCols :
       /\ n * o_special <= MaxCells
       /\ o_cols \in [1..n -> ColKinds]
  /\ (~o_content_only => o_ind_front /\ \A p \in 1..Len(o_cols) : o_cols[p] = "content")
  /\ o_factor_table = FALSE
  /\ o_fact = <<>>
  /\ o_orders = <<>>
  /\ o_i = 0
  /\ o_has_orderings = FALSE
  /\ o_model_orderings = <<>>

\* `if special_orders > 0` is false: the model is returned as built.
NoSpecialOrders ==
  /\ o_pc = "start"
  /\ ~(o_special > 0)
  /\ o_pc' = "done"
  /\ UNCHANGED <<o_cols, o_special, o_content_only, o_ind_front,
                 o_factor_table, o_fact, o_orders, o_i, o_has_orderings,
                 o_model_orderings>>
  /\ UNCHANGED notOrderVars

\* One iteration of `for i in range(special_orders)` of the first loop.
BuildOrder ==
  /\ o_pc = "start"
  /\ o_special > 0
  /\ o_i < o_special
  /\ \E order \in (IF o_content_only THEN ContentOnlyOrders(o_cols, o_ind_front)
                                    ELSE JointOrders(o_cols)) :
       IF o_content_only /\ NumUnique(order) # Len(o_cols)
         THEN /\ o_pc' = "failed"
              /\ UNCHANGED <<o_orders, o_i>>
         ELSE /\ o_orders' = Append(o_orders, order)
              /\ o_i' = o_i + 1
              /\ o_pc' = IF o_i + 1 = o_special THEN "built" ELSE "start"
  /\ UNCHANGED <<o_cols, o_special, o_content_only, o_ind_front,
                 o_factor_table, o_fact, o_has_orderings, o_model_orderings>>
  /\ UNCHANGED notOrderVars

\* `if factor_table:` with its loop over the orderings.
CorrectOrders ==
  /\ o_pc = "built"
  /\ \E factor_table \in BOOLEAN, mapping \in Groupings(0, Len(o_cols)) :
       /\ o_factor_table' = factor_table
       /\ o_fact' = IF factor_table THEN mapping ELSE <<>>
       /\ IF ~factor_table
            THEN /\ o_orders' = o_orders
                 /\ o_pc' = "corrected"
            ELSE LET corrected == [i \in 1..Len(o_orders) |-> CorrectOrder(o_orders[i], mapping, 1)]
                 IN IF \E i \in 1..Len(o_orders) : corrected[i] = IndexError
                      THEN /\ o_pc' = "failed"
                           /\ o_orders' = o_orders
                      ELSE /\ o_orders' = corrected
                           /\ o_pc' = "corrected"
  /\ UNCHANGED <<o_cols, o_special, o_content_only, o_ind_front, o_i,
                 o_has_orderings, o_model_orderings>>
  /\ UNCHANGED notOrderVars

\* `if inv_order:` and `model.orderings = orders`.
InstallOrders ==
  /\ o_pc = "corrected"
  /\ \E inv_order \in BOOLEAN :
       o_model_orderings' =
         IF inv_order THEN [i \in 1..Len(o_orders) |-> InvertOrder(o_orders[i])]
                      ELSE o_orders
  /\ o_has_orderings' = TRUE
  /\ o_pc' = "done"
  /\ UNCHANGED <<o_cols, o_special, o_content_only, o_ind_front,
                 o_factor_table, o_fact, o_orders, o_i>>
  /\ UNCHANGED notOrderVars

OrderInit == OrderStart /\ MetricIdle /\ TrainIdle /\ CtlIdle /\ AssertIdle /\ FixedIdle

OrderNext == NoSpecialOrders \/ BuildOrder \/ CorrectOrders \/ InstallOrders

SpecOrder == OrderInit /\ [][OrderNext]_vars

IsPermutation(order, n) ==
  /\ Len(order) = n
  /\ \A v \in 0..(n - 1) : Cardinality({p \in 1..n : order[p] = v}) = 1

\* C5: every ordering MakeMade holds, before and after the factorization
\* correction, is a permutation of 0..n-1, and the duplicate-check assertion
\* (like every other step of the builder) never fails.
C5_OrderingsArePermutations ==
  /\ o_pc # "failed"
  /\ \A i \in 1..Len(o_orders) : IsPermutation(o_orders[i], Len(o_cols))

C5_Witness ==
  /\ o_pc = "corrected"
  /\ o_content_only
  /\ o_cols = <<"ind", "content", "virt", "content">>
  /\ o_factor_table
  /\ Len(o_orders) = 2
  /\ o_orders[1] # o_orders[2]

Position(order, v) == CHOOSE p \in 1..Len(order) : order[p] = v

\* C6: after the correction the sub-variables of every factorized column sit
\* on consecutive ascending positions, for all columns at once.
C6_SubvarsContiguous ==
  (o_pc \in {"corrected", "done"} /\ o_factor_table) =>
    \A i \in 1..Len(o_orders) : \A c \in 1..Len(o_fact) : \A j \in 1..Len(o_fact[c]) :
      Position(o_orders[i], o_fact[c][j]) = Position(o_orders[i], o_fact[c][1]) + (j - 1)

C6_Witness ==
  /\ o_pc = "corrected"
  /\ o_fact = <<<<0, 1>>, <<2, 3>>>>
  /\ o_orders = <<<<2, 3, 0, 1>>>>

\* ------------------------------------------------------------------------
\* run_epoch: one epoch of the training loop.
\* ------------------------------------------------------------------------
\* The rates a caller passes as constant_lr (None, or a positive rate).
ConstantRates == {NoInt, 3}

\* The values a caller passes as warmups, as fractions: a step count (the
\* default, 1000) or a ratio below 1.
WarmupValues == {<<1000, 1>>, <<1, 2>>}

\* global_steps of a training step (lines 153-156); NoInt stands for the
\* TypeError of `upto * epoch_num` when upto is None.
GlobalSteps(iterable, upto, len_loader, epoch_num, step) ==
  IF iterable
    THEN IF upto = NoInt THEN NoInt ELSE upto * epoch_num + step + 1
    ELSE len_loader * epoch_num + step + 1

\* Mutant of the policy choice: the custom schedule is tested first.
LrPolicyCustomFirst(constant_lr, custom_lr_lambda, has_scheduler) ==
  IF custom_lr_lambda THEN "custom"
  ELSE IF constant_lr # NoInt /\ constant_lr # 0 THEN "constant"
  ELSE IF ~has_scheduler THEN "warmup"
  ELSE "scheduler"

\* The branch of the if/elif chain of lines 158-179 a training step takes.
LrPolicy(constant_lr, custom_lr_lambda, has_scheduler) ==
  IF constant_lr # NoInt /\ constant_lr # 0 THEN "constant"
  ELSE IF custom_lr_lambda THEN "custom"
  ELSE IF ~has_scheduler THEN "warmup"
  ELSE "scheduler"

\* t of the warmup schedule (lines 168-170): warmups, or
\* int(warmups * upto * epochs) for a ratio; NoInt stands for the TypeError
\* when upto is None.
WarmupT(warmups, upto, epochs) ==
  IF warmups[1] >= warmups[2] THEN warmups[1] \div warmups[2]
  ELSE IF upto = NoInt THEN NoInt
  ELSE (warmups[1] * upto * epochs) \div warmups[2]

\* The rate each policy writes, as a term: the arithmetic of the schedules
\* is not evaluated.
LrValue(policy, constant_lr, global_steps, t, current) ==
  CASE policy = "constant" -> <<"constant", constant_lr, 0>>
    [] policy = "custom" -> <<"custom", global_steps, 0>>
    [] policy = "warmup" -> <<"warmup", global_steps, t>>
    [] OTHER -> current

\* The test of line 242.
UpdateFires(step, accum_iter, max_step) ==
  ((step + 1) % accum_iter = 0) \/ (step + 1 = max_step)

\* Mutant of the update block: the scheduler is stepped before the
\* optimizer.
UpdateEventsSchedulerFirst(fires, has_scheduler) ==
  IF fires
    THEN (IF has_scheduler THEN <<"sched_step">> ELSE <<>>) \o <<"opt_step", "zero_grad">>
    ELSE <<>>

\* The calls of lines 242-246 in the order they are made.
UpdateEvents(fires, has_scheduler) ==
  IF fires
    THEN <<"opt_step", "zero_grad">> \o (IF has_scheduler THEN <<"sched_step">> ELSE <<>>)
    ELSE <<>>

\* num_orders_to_forward (lines 194-197).
NumOrdersToForward(split, nsamples) ==
  IF split = "test" /\ nsamples > 1 THEN nsamples ELSE 1

Count(s, e) == Cardinality({p \in 1..Len(s) : s[p] = e})

\* Mutant of lines 236-237: the gradients are not zeroed at the first step.
ZeroGradAtFirstStepNever(step, grad) == grad

\* Lines 236-237: the accumulated gradient after `if step == 0:
\* opt.zero_grad()`.
ZeroGradAtFirstStep(step, grad) == IF step = 0 THEN {} ELSE grad

\* Lines 239-240: what the backward pass of a step adds to the gradient, the
\* loss of batch `step` of epoch `epoch_num` divided by accum_iter.
Contribution(epoch_num, step, accum_iter) == <<epoch_num, step, accum_iter>>

\* The arguments of a run.  Arguments the chosen path never reads are fixed:
\* the evaluation split reads no learning-rate argument, the training split
\* does not use nsamples, and only the custom and warmup schedules read
\* global_steps (the dataset kind) and warmups.
TrainStart ==
  /\ t_pc = "loop" /\ t_error = ""
  /\ t_split \in {"train", "test"}
  /\ t_instance \in BOOLEAN
  /\ t_accum_iter \in (IF t_instance THEN 1..MaxAccum ELSE {1})
  /\ t_max_step \in (IF t_instance THEN 1..MaxSteps ELSE {NoInt})
  /\ t_upto \in {NoInt} \cup 1..MaxUpto
  /\ t_nbatches \in 0..MaxBatches
  /\ t_iterable \in BOOLEAN
  /\ t_epochs \in 1..MaxEpochs
  /\ t_epoch_num = 0
  /\ t_constant_lr \in ConstantRates
  /\ t_custom \in BOOLEAN
  /\ t_sched_arg \in BOOLEAN
  /\ t_warmups \in WarmupValues
  /\ t_nsamples \in 1..MaxSamples
  /\ (t_split = "test" =>
        /\ t_constant_lr = NoInt /\ ~t_custom /\ ~t_sched_arg
        /\ t_accum_iter = 1 /\ t_epochs = 1)
  /\ (t_split = "train" => t_nsamples = 1)
  /\ (t_split = "test" \/ LrPolicy(t_constant_lr, t_custom, t_sched_arg) \notin {"custom", "warmup"}
        => ~t_iterable)
  /\ (t_split = "test" \/ LrPolicy(t_constant_lr, t_custom, t_sched_arg) # "warmup"
        => t_warmups = <<1000, 1>>)
  /\ t_step = 0 /\ t_sched = t_sched_arg /\ t_nlosses = 0 /\ t_loss = <<>>
  /\ t_lr = <<"initial", 0, 0>> /\ t_opt_lr = <<"initial", 0, 0>>
  /\ t_lr_writes = 0 /\ t_policies = {}
  /\ t_grad = {} /\ t_applied = <<>> /\ t_dropped = {} /\ t_backward = {}
  /\ t_opt_steps = <<>> /\ t_sched_steps = <<>> /\ t_events = <<>>
  /\ t_forwards = 0 /\ t_lloss = <<>> /\ t_ret = ""

trainArgs == <<t_split, t_instance, t_accum_iter, t_max_step, t_upto, t_nbatches,
               t_iterable, t_epochs, t_constant_lr, t_custom, t_sched_arg,
               t_warmups, t_nsamples>>

\* What the learning-rate block of one training step does.
LrStep ==
  LET global_steps == GlobalSteps(t_iterable, t_upto, t_nbatches, t_epoch_num, t_step)
      policy == LrPolicy(t_constant_lr, t_custom, t_sched)
      t == IF policy = "warmup" THEN WarmupT(t_warmups, t_upto, t_epochs) ELSE 0
  IN [error |-> IF global_steps = NoInt THEN "TypeError"
                ELSE IF policy = "warmup" /\ t = NoInt THEN "TypeError"
                ELSE IF policy = "warmup" /\ t = 0 THEN "ZeroDivisionError"
                ELSE "",
      policy |-> policy,
      lr |-> LrValue(policy, t_constant_lr, global_steps, t, t_opt_lr),
      writes |-> policy # "scheduler",
      sched |-> IF policy = "custom" THEN FALSE ELSE t_sched]

\* The lines after the loop (307-311).
TrainReturn(loss_bound, loss) ==
  IF t_instance /\ ~loss_bound
    THEN /\ t_pc' = "failed"
         /\ t_error' = "UnboundLocalError"
         /\ UNCHANGED <<t_lloss, t_ret>>
    ELSE /\ t_pc' = "returned"
         /\ t_error' = ""
         /\ t_lloss' = IF t_instance THEN loss ELSE t_lloss
         /\ t_ret' = IF t_nlosses = 0 THEN "nan" ELSE "mean"

\* One pass of the body of `for step, xb in enumerate(loader)`.
TrainBatch ==
  /\ t_pc = "loop"
  /\ t_step < t_nbatches
  /\ LET train == t_split = "train"
         l == LrStep
         breaks == t_upto # NoInt /\ t_upto # 0 /\ t_step >= t_upto
         n_fwd == NumOrdersToForward(t_split, t_nsamples)
         me == <<t_epoch_num, t_step>>
         fires == UpdateFires(t_step, t_accum_iter, t_max_step)
         grad0 == ZeroGradAtFirstStep(t_step, t_grad)
         grad1 == grad0 \cup {Contribution(t_epoch_num, t_step, t_accum_iter)}
         t_sched_now == IF train THEN l.sched ELSE t_sched
         update == UpdateEvents(fires, t_sched_now)
     IN IF train /\ l.error # ""
          THEN /\ t_pc' = "failed"
               /\ t_error' = l.error
               /\ UNCHANGED <<t_step, t_sched, t_nlosses, t_loss, t_lr, t_opt_lr,
                              t_lr_writes, t_policies, t_grad, t_applied, t_dropped,
                              t_backward, t_opt_steps, t_sched_steps, t_events,
                              t_forwards, t_lloss, t_ret>>
          ELSE
            /\ t_sched' = t_sched_now
            /\ t_lr' = IF train THEN l.lr ELSE t_lr
            /\ IF breaks
                 THEN \* `break`: the rate has been written, nothing else runs.
                      /\ t_opt_lr' = IF train /\ l.writes THEN l.lr ELSE t_opt_lr
                      /\ t_lr_writes' = IF train /\ l.writes THEN t_lr_writes + 1 ELSE t_lr_writes
                      /\ t_policies' = IF train THEN t_policies \cup {l.policy} ELSE t_policies
                      /\ t_events' = IF train /\ l.writes THEN <<"set_lr">> ELSE <<>>
                      /\ t_forwards' = 0
                      /\ TrainReturn(t_loss # <<>>, t_loss)
                      /\ UNCHANGED <<t_step, t_nlosses, t_loss, t_grad, t_applied,
                                     t_dropped, t_backward, t_opt_steps, t_sched_steps>>
                 ELSE IF n_fwd # 1
                 THEN \* `assert False` of line 213, after the forward passes.
                      /\ t_pc' = "failed"
                      /\ t_error' = "AssertionError"
                      /\ t_forwards' = n_fwd
                      /\ t_events' = [p \in 1..(2 * n_fwd) |->
                                        IF p % 2 = 1 THEN "update_masks" ELSE "forward"]
                      /\ UNCHANGED <<t_step, t_nlosses, t_loss, t_opt_lr, t_lr_writes,
                                     t_policies, t_grad, t_applied, t_dropped,
                                     t_backward, t_opt_steps, t_sched_steps, t_lloss,
                                     t_ret>>
                 ELSE
                      /\ t_pc' = "loop"
                      /\ t_error' = ""
                      /\ t_forwards' = n_fwd
                      /\ t_nlosses' = t_nlosses + 1
                      /\ t_loss' = me
                      /\ t_step' = t_step + 1
                      /\ UNCHANGED <<t_lloss, t_ret>>
                      /\ IF train
                           THEN /\ t_lr_writes' = IF l.writes THEN t_lr_writes + 1 ELSE t_lr_writes
                                /\ t_policies' = t_policies \cup {l.policy}
                                       \cup (IF fires /\ t_sched_now THEN {"scheduler"} ELSE {})
                                /\ t_opt_lr' = IF fires /\ t_sched_now
                                                 THEN <<"scheduled", Len(t_sched_steps) + 1, 0>>
                                                 ELSE IF l.writes THEN l.lr ELSE t_opt_lr
                                /\ t_backward' = t_backward
                                       \cup {Contribution(t_epoch_num, t_step, t_accum_iter)}
                                /\ t_dropped' = t_dropped \cup (t_grad \ grad0)
                                /\ t_grad' = IF fires THEN {} ELSE grad1
                                /\ t_applied' = IF fires THEN Append(t_applied, grad1) ELSE t_applied
                                /\ t_opt_steps' = IF Count(update, "opt_step") > 0
                                                    THEN Append(t_opt_steps, me) ELSE t_opt_steps
                                /\ t_sched_steps' = IF Count(update, "sched_step") > 0
                                                      THEN Append(t_sched_steps, me) ELSE t_sched_steps
                                /\ t_events' = (IF l.writes THEN <<"set_lr">> ELSE <<>>)
                                       \o <<"update_masks", "forward">>
                                       \o (IF t_step = 0 THEN <<"zero_grad">> ELSE <<>>)
                                       \o <<"backward">> \o update
                           ELSE /\ t_events' = <<"update_masks", "forward">>
                                /\ UNCHANGED <<t_lr_writes, t_policies, t_opt_lr, t_backward,
                                               t_dropped, t_grad, t_applied, t_opt_steps,
                                               t_sched_steps>>
  /\ UNCHANGED <<trainArgs, t_epoch_num>>
  /\ UNCHANGED notTrainVars

\* The loader is exhausted: the loop ends and the function returns.
TrainExhausted ==
  /\ t_pc = "loop"
  /\ t_step = t_nbatches
  /\ TrainReturn(t_loss # <<>>, t_loss)
  /\ UNCHANGED <<t_step, t_sched, t_nlosses, t_loss, t_lr, t_opt_lr, t_lr_writes,
                 t_policies, t_grad, t_applied, t_dropped, t_backward, t_opt_steps,
                 t_sched_steps, t_events, t_forwards>>
  /\ UNCHANGED <<trainArgs, t_epoch_num>>
  /\ UNCHANGED notTrainVars

\* The caller runs the next epoch with the same model and optimizer: the
\* locals of run_epoch start afresh, the optimizer keeps its rate and the
\* parameters keep their gradients.
TrainNextEpoch ==
  /\ t_pc = "returned"
  /\ t_split = "train"
  /\ t_epoch_num + 1 < t_epochs
  /\ t_pc' = "loop"
  /\ t_epoch_num' = t_epoch_num + 1
  /\ t_step' = 0
  /\ t_sched' = t_sched_arg
  /\ t_nlosses' = 0
  /\ t_loss' = <<>>
  /\ t_events' = <<>>
  /\ t_forwards' = 0
  /\ t_lr_writes' = 0
  /\ t_ret' = ""
  /\ UNCHANGED <<t_error, t_lr, t_opt_lr, t_policies, t_grad, t_applied,
                 t_dropped, t_backward, t_opt_steps, t_sched_steps, t_lloss>>
  /\ UNCHANGED trainArgs
  /\ UNCHANGED notTrainVars

TrainInit == TrainStart /\ MetricIdle /\ OrderIdle /\ CtlIdle /\ AssertIdle /\ FixedIdle

TrainNext == TrainBatch \/ TrainExhausted \/ TrainNextEpoch

SpecTrain == TrainInit /\ [][TrainNext]_vars

\* The training steps the current epoch has run (a `break` pass runs none).
StepsRun == t_step

\* The optimizer steps of the current epoch, as training step numbers
\* (1-based).
EpochOptSteps ==
  LET mine == SelectSeq(t_opt_steps, LAMBDA e : e[1] = t_epoch_num)
  IN [p \in 1..Len(mine) |-> mine[p][2] + 1]

\* C2: in a training epoch two consecutive optimizer steps are exactly
\* accum_iter training steps apart, unless the later one is the last training
\* step of the epoch.
C2_OptimizerStepSpacing ==
  (t_pc = "returned" /\ t_split = "train") =>
    \A p \in 1..(Len(EpochOptSteps) - 1) :
      \/ EpochOptSteps[p + 1] - EpochOptSteps[p] = t_accum_iter
      \/ EpochOptSteps[p + 1] = StepsRun

FirstPos(s, e) == CHOOSE p \in 1..Len(s) : s[p] = e /\ \A q \in 1..(p - 1) : s[q] # e

\* The scheduler object passed in is the one stepped: no custom schedule
\* replaces it.
SchedulerInUse ==
  /\ t_split = "train"
  /\ t_sched_arg
  /\ LrPolicy(t_constant_lr, t_custom, t_sched_arg) # "custom"

\* C3: with an externally stepped scheduler, a training step steps the
\* scheduler at most once, only together with the optimizer and after it, and
\* over the run the scheduler has stepped at exactly the optimizer's steps.
C3_OptimizerThenScheduler ==
  SchedulerInUse =>
    /\ Count(t_events, "sched_step") <= 1
    /\ Count(t_events, "opt_step") <= 1
    /\ Count(t_events, "sched_step") = Count(t_events, "opt_step")
    /\ (Count(t_events, "sched_step") = 1 =>
          FirstPos(t_events, "opt_step") < FirstPos(t_events, "sched_step"))
    /\ t_sched_steps = t_opt_steps

C3_Witness ==
  /\ SchedulerInUse
  /\ t_constant_lr = NoInt
  /\ t_accum_iter = 2
  /\ Len(t_sched_steps) = 2
  /\ Count(t_events, "sched_step") = 1

\* C7: the rate a training step uses comes from the first configured policy
\* in the order constant rate, custom schedule, warmup schedule (no scheduler
\* object given), scheduler object (the optimizer's rate is left as it is).
C7_LrPrecedence ==
  (t_split = "train" /\ t_policies # {}) =>
    /\ (t_constant_lr # NoInt => t_lr = <<"constant", t_constant_lr, 0>>)
    /\ (t_constant_lr = NoInt /\ t_custom => t_lr[1] = "custom")
    /\ (t_constant_lr = NoInt /\ ~t_custom /\ ~t_sched_arg => t_lr[1] = "warmup")
    /\ (t_constant_lr = NoInt /\ ~t_custom /\ t_sched_arg =>
          /\ t_lr[1] \in {"initial", "scheduled"}
          /\ t_lr_writes = 0)

C7_Witness ==
  /\ t_split = "train"
  /\ t_constant_lr = 3
  /\ t_custom
  /\ t_lr_writes = 2
  /\ t_opt_lr = <<"constant", 3, 0>>

\* ------------------------------------------------------------------------
\* ErrorMetric as a call.
\* ------------------------------------------------------------------------
MetricStart ==
  /\ m_pc = "args"
  /\ m_est \in 0..MaxCard
  /\ m_card \in 0..MaxCard
  /\ m_err = None

MetricInit == MetricStart /\ OrderIdle /\ TrainIdle /\ CtlIdle /\ AssertIdle /\ FixedIdle

CallErrorMetric ==
  /\ m_pc = "args"
  /\ m_err' = ErrorMetric(m_est, m_card)
  /\ m_pc' = "done"
  /\ UNCHANGED <<m_est, m_card>>
  /\ UNCHANGED notMetricVars

MetricNext == CallErrorMetric

SpecMetric == MetricInit /\ [][MetricNext]_vars

\* C4: ErrorMetric is symmetric in its two arguments, is 1 on equal
\* arguments (t > 0 and 0, 0), and is t when exactly one argument is 0 and
\* the other is t > 0.
C4_ErrorMetricAlgebra ==
  m_pc = "done" =>
    /\ m_err = ErrorMetric(m_card, m_est)
    /\ (m_est = m_card /\ m_card > 0 => m_err = FracOfInt(1))
    /\ (m_est = 0 /\ m_card = 0 => m_err = FracOfInt(1))
    /\ (m_est = 0 /\ m_card > 0 => m_err = FracOfInt(m_card))
    /\ (m_card = 0 /\ m_est > 0 => m_err = FracOfInt(m_est))

C4_Witness ==
  m_pc = "done" /\ m_est = 0 /\ m_card = 3 /\ m_err = <<3, 1>>
\* ------------------------------------------------------------------------
\* NeuroCard._maybe_check_asserts
\* ------------------------------------------------------------------------
\* The metric names are 1..MaxKeys; a dict is a function over the names whose
\* value at a name it does not hold is Absent.  self.asserts is the sequence
\* of its (key, max_val) items in iteration order; None and {} are <<>>.
Keys == 1..MaxKeys

Absent == <<NoInt, 1>>

MetricValues == {FracOfInt(v) : v \in 0..MaxVal}

Dicts == [Keys -> {Absent} \cup MetricValues]

\* The argument `returns`: None, or a dict.
NoReturns == [given |-> FALSE, map |-> [k \in Keys |-> Absent]]

Returns == {NoReturns} \cup {[given |-> TRUE, map |-> d] : d \in Dicts}

RECURSIVE AssertItems(_, _)
AssertItems(n, keys) ==
  IF n = 0 THEN {<<>>}
  ELSE {<<>>} \cup
       UNION {{<<<<k, v>>>> \o rest : rest \in AssertItems(n - 1, keys \ {k})}
              : k \in keys, v \in MetricValues}

\* Lines 871-878: the loop over self.asserts.items().  A subscript of None
\* raises TypeError, a subscript with a missing key raises KeyError, and
\* either leaves the loop at once.
RECURSIVE CheckAsserts(_, _, _, _)
CheckAsserts(items, results, returns, message) ==
  IF items = <<>>
    THEN [exc |-> IF message # <<>> THEN "AssertionError" ELSE "None",
          message |-> message]
    ELSE LET key == items[1][1]
             max_val == items[1][2]
         IN IF results[key] # Absent
              THEN CheckAsserts(Tail(items), results, returns,
                     IF FracLeq(max_val, results[key])
                       THEN Append(message, <<key, results[key], max_val>>)
                       ELSE message)
              ELSE IF ~returns.given
                THEN [exc |-> "TypeError", message |-> message]
              ELSE IF returns.map[key] = Absent
                THEN [exc |-> "KeyError", message |-> message]
              ELSE CheckAsserts(Tail(items), results, returns,
                     IF FracLeq(max_val, returns.map[key])
                       THEN Append(message, <<key, returns.map[key], max_val>>)
                       ELSE message)

\* Lines 865-879.
MaybeCheckAsserts(asserts, results, returns) ==
  IF asserts = <<>> THEN [exc |-> "None", message |-> <<>>]
  ELSE CheckAsserts(asserts, results, returns, <<>>)

AssertStart ==
  /\ a_pc = "call"
  /\ a_asserts \in AssertItems(MaxKeys, Keys)
  /\ a_results \in Dicts
  /\ a_returns \in Returns
  /\ a_out = <<>>

CallMaybeCheckAsserts ==
  /\ a_pc = "call"
  /\ a_out' = <<MaybeCheckAsserts(a_asserts, a_results, a_returns)>>
  /\ a_pc' = "done"
  /\ UNCHANGED <<a_asserts, a_results, a_returns>>
  /\ UNCHANGED notAssertVars

AssertInit == AssertStart /\ MetricIdle /\ OrderIdle /\ TrainIdle /\ CtlIdle /\ FixedIdle

AssertNext == CallMaybeCheckAsserts

SpecAsserts == AssertInit /\ [][AssertNext]_vars

\* The items of self.asserts whose metric is in `results` and has reached
\* its threshold, in iteration order.
Breaches(items, results) ==
  SelectSeq(items, LAMBDA it : results[it[1]] # Absent /\ FracLeq(it[2], results[it[1]]))

\* C11: called as step() calls it (returns = None) with thresholds
\* configured, the hook raises an assertion exactly when a metric of the
\* step result breaches its threshold, the message lists every breaching
\* metric, and a threshold on a metric absent from the result does not make
\* the call fail.
C11_AssertHook ==
  (a_pc = "done" /\ ~a_returns.given) =>
    LET out == a_out[1]
        breaches == Breaches(a_asserts, a_results)
    IN /\ (out.exc = "AssertionError") = (breaches # <<>>)
       /\ (out.exc = "AssertionError" =>
             out.message = [p \in 1..Len(breaches) |->
                <<breaches[p][1], a_results[breaches[p][1]], breaches[p][2]>>])
       /\ (breaches = <<>> => out.exc = "None")

\* ------------------------------------------------------------------------
\* NeuroCard.MakeOrdering
\* ------------------------------------------------------------------------
\* rng.shuffle(x) under a seed: the arrangement depends on the seed and on
\* len(x) only, position p receives the element that was at shuffle[p].
Shuffled(x, shuffle) == [p \in 1..Len(x) |-> x[shuffle[p] + 1]]

\* x[::-1]
Reversed(x) == [p \in 1..Len(x) |-> x[Len(x) + 1 - p]]

\* The outcome of one call.  `none`: None is returned;
\* `alias`: the returned list is the object self.order; `val`: its value on
\* return; `order`: self.order after the call.  Indexing or shuffling None
\* raises TypeError.
MakeOrdering(order_given, order, order_seed, shuffle, natural, ncols) ==
  LET has == order_given \/ natural
      fixed_ordering == IF order_given THEN order
                        ELSE IF natural THEN [p \in 1..ncols |-> p - 1] ELSE <<>>
  IN IF order_seed = "None"
       THEN [error |-> "", none |-> ~has, alias |-> order_given,
             val |-> fixed_ordering, order |-> order]
     ELSE IF ~has
       THEN [error |-> "TypeError", none |-> TRUE, alias |-> FALSE, val |-> <<>>,
             order |-> order]
     ELSE IF order_seed = "reverse"
       THEN [error |-> "", none |-> FALSE, alias |-> FALSE,
             val |-> Reversed(fixed_ordering), order |-> order]
     ELSE LET shuffled == Shuffled(fixed_ordering, shuffle)
          IN [error |-> "", none |-> FALSE, alias |-> order_given, val |-> shuffled,
              order |-> IF order_given THEN shuffled ELSE order]

\* A controller's configuration: self.order is None or an ordering of the
\* columns; order_seed is None, 'reverse' or an integer.
FixedStart ==
  /\ f_pc = "ready" /\ f_error = ""
  /\ f_ncols \in 1..MaxOrderLen
  /\ f_order_given \in BOOLEAN
  /\ f_order \in (IF f_order_given THEN RngPermutations(Arange(0, f_ncols)) ELSE {<<>>})
  /\ f_order0 = f_order
  /\ f_order_seed \in {"None", "reverse", "seed"}
  /\ f_shuffle \in (IF f_order_seed = "seed" THEN RngPermutations(Arange(0, f_ncols))
                                             ELSE {<<>>})
  /\ f_natural \in BOOLEAN
  /\ f_rets = <<>>

\* One call of MakeOrdering: setup's, MakeModel's, or a later one.
CallMakeOrdering ==
  /\ f_pc = "ready"
  /\ Len(f_rets) < MaxOrderingCalls
  /\ LET r == MakeOrdering(f_order_given, f_order, f_order_seed, f_shuffle,
                           f_natural, f_ncols)
     IN IF r.error # ""
          THEN /\ f_pc' = "failed"
               /\ f_error' = r.error
               /\ UNCHANGED <<f_order, f_rets>>
          ELSE /\ f_order' = r.order
               /\ f_rets' = Append(f_rets, [none |-> r.none, alias |-> r.alias,
                                            val |-> r.val])
               /\ UNCHANGED <<f_pc, f_error>>
  /\ UNCHANGED <<f_order_given, f_order0, f_order_seed, f_shuffle, f_natural, f_ncols>>
  /\ UNCHANGED notFixedVars

FixedInit ==
  FixedStart /\ MetricIdle /\ OrderIdle /\ TrainIdle /\ CtlIdle /\ AssertIdle

FixedNext == CallMakeOrdering

SpecFixed == FixedInit /\ [][FixedNext]_vars

\* C23: every call of MakeOrdering on a controller returns the ordering the
\* first call returned, and the configured order list stays as configured.
C23_MakeOrderingRepeatable ==
  /\ f_order = f_order0
  /\ \A p, q \in 1..Len(f_rets) :
       f_rets[p].none = f_rets[q].none /\ f_rets[p].val = f_rets[q].val

\* ------------------------------------------------------------------------
\* NeuroCard: setup, LoadCheckpoint, step, evaluate, stop.
\* ------------------------------------------------------------------------
\* The values of config['lr_scheduler'] by the branch of setup they take:
\* None, the three scheduler names, 'wd_<lr>_<fraction>', a 'wd_' name that
\* does not split in three, and any other name.
LrSchedulerNames ==
  {"None", "CosineAnnealingLR", "OneCycleLR", "OneCycleLR-pct", "wd_lr_frac",
   "wd_lr", "other"}

\* Mutant of the learning-rate block: an unset lr_scheduler is rejected.
SetupLrSchedulerRejectNone(name) ==
  CASE name \in {"CosineAnnealingLR", "OneCycleLR", "OneCycleLR-pct"} ->
         [ok |-> TRUE, lr_scheduler |-> "object", custom_lr_lambda |-> FALSE]
    [] name = "wd_lr_frac" ->
         [ok |-> TRUE, lr_scheduler |-> "name", custom_lr_lambda |-> TRUE]
    [] OTHER ->
         [ok |-> FALSE, lr_scheduler |-> "name", custom_lr_lambda |-> FALSE]

\* Lines 649-680: what self.lr_scheduler and self.custom_lr_lambda become,
\* and whether the assertions of the block pass.  lr_scheduler is "None", a
\* scheduler "object" or still the configured "name".
SetupLrScheduler(name) ==
  CASE name \in {"CosineAnnealingLR", "OneCycleLR", "OneCycleLR-pct"} ->
         [ok |-> TRUE, lr_scheduler |-> "object", custom_lr_lambda |-> FALSE]
    [] name = "wd_lr_frac" ->
         [ok |-> TRUE, lr_scheduler |-> "name", custom_lr_lambda |-> TRUE]
    [] name = "None" ->
         [ok |-> TRUE, lr_scheduler |-> "None", custom_lr_lambda |-> FALSE]
    [] OTHER ->
         [ok |-> FALSE, lr_scheduler |-> "name", custom_lr_lambda |-> FALSE]

\* Mutant of the assertion of LoadCheckpoint: any match is accepted.
CheckpointFoundAtLeastOne(nfiles) == nfiles >= 1

\* `assert len(all_ckpts) == 1`
CheckpointFound(nfiles) == nfiles = 1

\* Mutant of LoadCheckpoint: the optimizer state is not restored.
LoadedStateKeepOptimizer(mode, loaded, cur) ==
  IF mode = "INFERENCE"
    THEN [cur EXCEPT !.model = loaded.model]
    ELSE [model |-> loaded.model, epoch |-> loaded.epoch, opt |-> cur.opt,
          lloss |-> loaded.loss]

\* Lines 716-727: the controller's model parameters, epoch, optimizer state
\* and last loss after the record `loaded` is read.
LoadedState(mode, loaded, cur) ==
  IF mode = "INFERENCE"
    THEN [cur EXCEPT !.model = loaded.model]
    ELSE [model |-> loaded.model, epoch |-> loaded.epoch, opt |-> loaded.opt,
          lloss |-> loaded.loss]

\* The records a checkpoint file can hold.
CheckpointRecords ==
  [model : {"ckpt_model"}, epoch : 1..MaxCkptEpoch, opt : {"ckpt_opt_a", "ckpt_opt_b"},
   loss : {"ckpt_loss_a", "ckpt_loss_b"}]

\* config['epoch']: absent or None, or a number.
ConfigEpochs == {NoInt, 9}

\* The cardinalities the estimators and the oracle array hold in the model.
EstCards == {3}
OracleCards == {0, 2, 3}

\* The workloads utils.UnpackQueries can return: n queries, their oracle
\* cardinalities and the indices flagged as not supported (none or one of
\* them: evaluate() stops at the first).
Workloads(maxq) ==
  UNION {[n : {n}, cards : [0..(n - 1) -> OracleCards],
          not_support : {{}} \cup {{q} : q \in 0..(n - 1)}]
         : n \in 0..maxq}

FracAdd(x, y) == Frac(x[1] * y[2] + y[1] * x[2], x[2] * y[2])
FracSub(x, y) == Frac(x[1] * y[2] - y[1] * x[2], x[2] * y[2])
FracMul(x, y) == Frac(x[1] * y[1], x[2] * y[2])

\* sorted(a)
RECURSIVE SortFracs(_)
SortFracs(a) ==
  IF Len(a) <= 1 THEN a
  ELSE LET m == CHOOSE p \in 1..Len(a) : \A q \in 1..Len(a) : FracLeq(a[p], a[q])
           rest == [q \in 1..(Len(a) - 1) |-> IF q < m THEN a[q] ELSE a[q + 1]]
       IN <<a[m]>> \o SortFracs(rest)

\* Mutant of the quantile: the lower neighbour, with no interpolation.
QuantileLower(a, num, den) ==
  LET s == SortFracs(a)
      n == Len(s)
  IN s[((num * (n - 1)) \div den) + 1]

\* np.quantile(a, num / den) with linear interpolation, a not empty.
Quantile(a, num, den) ==
  LET s == SortFracs(a)
      n == Len(s)
      h == num * (n - 1)
      lo == h \div den
      hi == IF lo + 1 > n - 1 THEN n - 1 ELSE lo + 1
      g == Frac(h % den, den)
  IN FracAdd(s[lo + 1], FracMul(g, FracSub(s[hi + 1], s[lo + 1])))

\* np.max(a), a not empty.
NpMax(a) == SortFracs(a)[Len(a)]

\* The four aggregates evaluate() stores for one estimator.
Aggregates(errs) ==
  [max |-> NpMax(errs), p99 |-> Quantile(errs, 99, 100),
   p95 |-> Quantile(errs, 95, 100), median |-> Quantile(errs, 1, 2)]

\* est.AddError(err, est_card, card) for query q.
AddError(log, q, err, est_card, card) ==
  Append(log, [q |-> q, err |-> err, est |-> est_card, card |-> card])

\* NeuroCard.Query for query q: the estimators before `raise_at` answer and
\* log their error, estimator `raise_at` raises (0: none raises).
QueryLogs(logs, q, card, ests, raise_at) ==
  [e \in 1..Len(logs) |->
     IF raise_at = 0 \/ e < raise_at
       THEN AddError(logs[e], q, ErrorMetric(ests[e], card), ests[e], card)
       ELSE logs[e]]

\* NeuroCard.NotSupportQuery: every estimator logs the code; the cardinality
\* its Query returns with not_support=True is not modelled (NoInt).
NotSupportQuery(logs, q, code) ==
  [e \in 1..Len(logs) |-> AddError(logs[e], q, FracOfInt(code), NoInt, code)]

\* config['asserts']: None, a threshold on the first estimator's max, or a
\* threshold on a name evaluate() never reports (name 0).
ConfigAsserts == {<<>>, <<<<1, FracOfInt(2)>>>>, <<<<0, FracOfInt(2)>>>>}

\* The dict evaluate() returns, as _maybe_check_asserts reads it: the name
\* of estimator e's max, p99, p95 and median is 4 * (e - 1) + 1, .. + 4.
ResultsDict(results) ==
  [k \in 0..(4 * MaxEstimators) |->
     IF k = 0 \/ k > 4 * Len(results) THEN Absent
     ELSE LET r == results[((k - 1) \div 4) + 1]
              m == ((k - 1) % 4) + 1
          IN CASE m = 1 -> r.max [] m = 2 -> r.p99 [] m = 3 -> r.p95
               [] OTHER -> r.median]

\* Mutant of the value step() returns: the controller's epoch is reported.
StepResultSelfEpoch(results) ==
  [epoch |-> c_state.epoch, done |-> TRUE, results |-> results]

\* Lines 859-863: the value step() returns.
StepResult(results) == [epoch |-> 0, done |-> TRUE, results |-> results]

\* Lines 858-863: the rest of step() once evaluate() has returned `results`.
StepReturn(results) ==
  LET hook == MaybeCheckAsserts(c_cfg.asserts, ResultsDict(results), NoReturns)
  IN IF hook.exc = "None"
       THEN /\ c_pc' = "ready"
            /\ c_error' = ""
            /\ c_steps' = c_steps + 1
            /\ c_ret' = <<StepResult(results)>>
       ELSE /\ c_pc' = "failed"
            /\ c_error' = hook.exc
            /\ UNCHANGED <<c_steps, c_ret>>

\* The controller as constructed, before setup.
CtlCreated ==
  /\ c_pc = "created" /\ c_error = "" /\ c_setup_done = FALSE
  /\ c_cfg = [lr_scheduler |-> "None", checkpoint_to_load |-> FALSE, nfiles |-> 0,
              epoch |-> NoInt, asserts |-> <<>>]
  /\ c_mode = "INFERENCE" /\ c_lr_scheduler = "None"
  /\ c_custom_lr_lambda = FALSE
  /\ c_state = [model |-> "init", epoch |-> 0, opt |-> "fresh", lloss |-> "unset"]
  /\ c_loaded = NoRecord
  /\ c_workload = NoWorkload /\ c_num_eval = 0 /\ c_nest = 1
  /\ c_i = 0 /\ c_num_queries = 0 /\ c_errs = <<>> /\ c_err_queries = <<>>
  /\ c_results = <<>> /\ c_steps = 0 /\ c_ret = <<>>

evalVars == <<c_i, c_num_queries, c_errs, c_err_queries, c_results, c_steps, c_ret>>

SetupFails(cfg, reason) ==
  /\ c_pc' = "failed"
  /\ c_error' = reason
  /\ c_cfg' = cfg
  /\ UNCHANGED <<c_setup_done, c_mode, c_lr_scheduler, c_custom_lr_lambda,
                 c_state, c_loaded, c_workload, c_num_eval, c_nest>>

\* NeuroCard.setup, with LoadCheckpoint.  maxq and maxe bound the workload
\* and the number of estimators the configuration names.
Setup(maxq, maxe) ==
  /\ c_pc = "created"
  /\ \E name \in LrSchedulerNames, ckpt_given \in BOOLEAN, nfiles \in 0..MaxFiles,
        cfg_epoch \in ConfigEpochs, asserts \in ConfigAsserts :
       LET cfg == [lr_scheduler |-> name, checkpoint_to_load |-> ckpt_given,
                   nfiles |-> nfiles, epoch |-> cfg_epoch, asserts |-> asserts]
           epoch0 == IF cfg_epoch = NoInt THEN 0 ELSE cfg_epoch
           lr == SetupLrScheduler(name)
           cur == [model |-> "init", epoch |-> epoch0, opt |-> "fresh", lloss |-> "unset"]
       IN \/ \E reason \in {"AssertionError: PK_tuples_np_loc", "AssertionError: dataset",
                              "AssertionError: join_tables", "AssertionError: activation"} :
               \* the configuration trips one of the assertions of lines 545-620
               SetupFails(cfg, reason)
          \/ IF ~lr.ok THEN SetupFails(cfg, "AssertionError: lr_scheduler")
             ELSE IF ~ckpt_given THEN SetupFails(cfg, "AssertionError: checkpoint_to_load")
             ELSE IF ~CheckpointFound(nfiles) THEN SetupFails(cfg, "AssertionError: all_ckpts")
             ELSE \E mode \in {"INFERENCE", "TRAIN"}, loaded \in CheckpointRecords,
                     workload \in {NoWorkload} \cup Workloads(maxq),
                     num_eval \in 0..maxq, nest \in 1..maxe :
                    /\ c_pc' = "ready"
                    /\ c_error' = ""
                    /\ c_setup_done' = TRUE
                    /\ c_cfg' = cfg
                    /\ c_mode' = mode
                    /\ c_lr_scheduler' = lr.lr_scheduler
                    /\ c_custom_lr_lambda' = lr.custom_lr_lambda
                    /\ c_loaded' = loaded
                    /\ c_state' = LoadedState(mode, loaded, cur)
                    /\ c_workload' = workload
                    /\ c_num_eval' = num_eval
                    /\ c_nest' = nest
  /\ UNCHANGED evalVars
  /\ UNCHANGED notCtlVars

\* NeuroCard.step up to the query loop of evaluate(): with no queries to run
\* the call returns at once.
StepBegin ==
  /\ c_pc = "ready"
  /\ c_steps < MaxStepCalls
  /\ IF c_num_eval = 0
       THEN /\ c_results' = <<>>
            /\ StepReturn(<<>>)
            /\ UNCHANGED <<c_i, c_num_queries, c_errs, c_err_queries>>
       ELSE IF c_workload.n = NoInt
       THEN /\ c_pc' = "failed"
            /\ c_error' = "AssertionError: loaded_queries"
            /\ c_errs' = [e \in 1..c_nest |-> <<>>]
            /\ UNCHANGED <<c_i, c_num_queries, c_err_queries, c_results, c_steps, c_ret>>
       ELSE /\ c_pc' = "eval"
            /\ c_error' = ""
            /\ c_errs' = [e \in 1..c_nest |-> <<>>]
            /\ c_num_queries' = IF c_workload.n < c_num_eval THEN c_workload.n ELSE c_num_eval
            /\ c_i' = 0
            /\ c_err_queries' = <<>>
            /\ c_results' = <<>>
            /\ c_ret' = <<>>
            /\ UNCHANGED c_steps
  /\ UNCHANGED <<c_setup_done, c_cfg, c_mode, c_lr_scheduler,
                 c_custom_lr_lambda, c_state, c_loaded, c_workload, c_num_eval, c_nest>>
  /\ UNCHANGED notCtlVars

\* evaluate(num_queries, done, estimators) called by a caller that passes
\* its own estimators: new ones, or the ones it passed to its previous call,
\* which completed (lines 1030-1046 leave the logs of passed estimators as
\* they are).  The caller asks for the configured number of queries.
EvaluateDirect ==
  /\ c_pc = "ready"
  /\ \E reused \in BOOLEAN :
       /\ (reused => /\ c_steps = 0
                     /\ c_results # <<>>
                     /\ \A e \in 1..c_nest : Len(c_errs[e]) \in 1..MaxQueries)
       /\ LET num_queries == c_num_eval IN
          IF num_queries = 0
            THEN /\ c_results' = <<>>
                 /\ UNCHANGED <<c_pc, c_error, c_i, c_num_queries, c_errs, c_err_queries>>
            ELSE IF c_workload.n = NoInt
            THEN /\ c_pc' = "failed"
                 /\ c_error' = "AssertionError: loaded_queries"
                 /\ UNCHANGED <<c_i, c_num_queries, c_errs, c_err_queries, c_results>>
            ELSE /\ c_pc' = "eval_direct"
                 /\ c_error' = ""
                 /\ c_errs' = IF reused THEN c_errs ELSE [e \in 1..c_nest |-> <<>>]
                 /\ c_num_queries' = IF c_workload.n < num_queries THEN c_workload.n
                                                                   ELSE num_queries
                 /\ c_i' = 0
                 /\ c_err_queries' = <<>>
                 /\ c_results' = <<>>
  /\ UNCHANGED <<c_steps, c_ret>>
  /\ UNCHANGED <<c_setup_done, c_cfg, c_mode, c_lr_scheduler,
                 c_custom_lr_lambda, c_state, c_loaded, c_workload, c_num_eval, c_nest>>
  /\ UNCHANGED notCtlVars

\* One pass of `for i in range(num_queries)`.
EvalQuery ==
  /\ c_pc \in {"eval", "eval_direct"}
  /\ c_i < c_num_queries
  /\ IF c_i \in c_workload.not_support
       THEN \* `assert False` of line 1053
            /\ c_pc' = "failed"
            /\ c_error' = "AssertionError: not_support_query_idx"
            /\ UNCHANGED <<c_i, c_errs, c_err_queries>>
       ELSE \E raise_at \in 0..c_nest, ests \in [1..c_nest -> EstCards] :
              LET logged == QueryLogs(c_errs, c_i, c_workload.cards[c_i], ests, raise_at)
              IN IF raise_at = 0
                   THEN /\ c_errs' = logged
                        /\ c_i' = c_i + 1
                        /\ UNCHANGED <<c_pc, c_error, c_err_queries>>
                   ELSE \* the except block, ending in `assert False`
                        /\ c_errs' = NotSupportQuery(logged, c_i, 0)
                        /\ c_err_queries' = Append(c_err_queries, c_i)
                        /\ c_pc' = "failed"
                        /\ c_error' = "AssertionError: except"
                        /\ UNCHANGED c_i
  /\ UNCHANGED <<c_num_queries, c_results, c_steps, c_ret>>
  /\ UNCHANGED <<c_setup_done, c_cfg, c_mode, c_lr_scheduler,
                 c_custom_lr_lambda, c_state, c_loaded, c_workload, c_num_eval, c_nest>>
  /\ UNCHANGED notCtlVars

\* The lines after the query loop (1080-1107) and the rest of step().
EvalFinish ==
  /\ c_pc \in {"eval", "eval_direct"}
  /\ c_i = c_num_queries
  /\ IF \E e \in 1..c_nest : c_errs[e] = <<>>
       THEN \* np.max of an empty list
            /\ c_pc' = "failed"
            /\ c_error' = "ValueError"
            /\ UNCHANGED <<c_results, c_steps, c_ret>>
       ELSE LET results == [e \in 1..c_nest |->
                  Aggregates([p \in 1..Len(c_errs[e]) |-> c_errs[e][p].err])]
            IN /\ c_results' = results
               /\ IF c_pc = "eval"
                    THEN StepReturn(results)
                    ELSE /\ c_pc' = "ready"
                         /\ c_error' = ""
                         /\ UNCHANGED <<c_steps, c_ret>>
  /\ UNCHANGED <<c_i, c_num_queries, c_errs, c_err_queries>>
  /\ UNCHANGED <<c_setup_done, c_cfg, c_mode, c_lr_scheduler,
                 c_custom_lr_lambda, c_state, c_loaded, c_workload, c_num_eval, c_nest>>
  /\ UNCHANGED notCtlVars

\* NeuroCard.stop
Stop ==
  /\ c_pc = "ready"
  /\ c_pc' = "stopped"
  /\ UNCHANGED <<c_error, c_setup_done, c_cfg, c_mode, c_lr_scheduler,
                 c_custom_lr_lambda, c_state, c_loaded, c_workload, c_num_eval, c_nest>>
  /\ UNCHANGED evalVars
  /\ UNCHANGED notCtlVars

CtlSetup == Setup(CtlQueries, CtlEstimators)

CtlInit == CtlCreated /\ MetricIdle /\ OrderIdle /\ TrainIdle /\ AssertIdle /\ FixedIdle

CtlNext == CtlSetup \/ StepBegin \/ EvalQuery \/ EvalFinish \/ Stop

SpecCtl == CtlInit /\ [][CtlNext]_vars

\* A controller whose setup has completed, with any workload of at most
\* MaxQueries queries and at most MaxEstimators estimators.
EvalStart ==
  /\ c_pc = "ready" /\ c_error = "" /\ c_setup_done = TRUE
  /\ c_cfg \in {[lr_scheduler |-> "None", checkpoint_to_load |-> TRUE, nfiles |-> 1,
               epoch |-> NoInt, asserts |-> a] : a \in ConfigAsserts}
  /\ c_mode = "INFERENCE" /\ c_lr_scheduler = "None"
  /\ c_custom_lr_lambda = FALSE
  /\ c_loaded \in {r \in CheckpointRecords : r.epoch = 1 /\ r.opt = "ckpt_opt_a" /\ r.loss = "ckpt_loss_a"}
  /\ c_state = [model |-> "ckpt_model", epoch |-> 0, opt |-> "fresh", lloss |-> "unset"]
  /\ c_workload \in {NoWorkload} \cup Workloads(MaxQueries)
  /\ c_num_eval \in 0..MaxQueries
  /\ c_nest \in 1..MaxEstimators
  /\ c_i = 0 /\ c_num_queries = 0 /\ c_errs = <<>> /\ c_err_queries = <<>>
  /\ c_results = <<>> /\ c_steps = 0 /\ c_ret = <<>>

EvalInit == EvalStart /\ MetricIdle /\ OrderIdle /\ TrainIdle /\ AssertIdle /\ FixedIdle

EvalNext == StepBegin \/ EvaluateDirect \/ EvalQuery \/ EvalFinish \/ Stop

SpecEval == EvalInit /\ [][EvalNext]_vars
\* C1: a query that raises during estimation never aborts the workload:
\* after the exception evaluate() keeps running and returns its report, in
\* which every estimator holds an entry for each of the N queries, the code 0
\* for the raising ones.
C1_FailureIsolation ==
  /\ (c_err_queries # <<>> => c_pc \in {"eval", "ready", "stopped"})
  /\ (c_pc = "ready" /\ c_results # <<>> =>
        \A e \in 1..c_nest : \A q \in 0..(c_num_queries - 1) :
          \E p \in 1..Len(c_errs[e]) :
            /\ c_errs[e][p].q = q
            /\ (c_errs[e][p].err = FracOfInt(0)) =
                 (\E r \in 1..Len(c_err_queries) : c_err_queries[r] = q))

\* The names setup's learning-rate block rejects.
RejectedLrSchedulerNames == {"wd_lr", "other"}

C9_SetupNeedsOneCheckpoint ==
  (c_setup_done \/ c_steps > 0 \/ c_pc \in {"ready", "eval", "stopped"}) =>
    /\ c_setup_done
    /\ c_cfg.checkpoint_to_load
    /\ c_cfg.nfiles = 1
    /\ c_loaded # NoRecord
    /\ c_state.model = c_loaded.model

C9_Witness ==
  /\ c_steps = 1
  /\ c_pc = "ready"
  /\ c_results # <<>>
  /\ c_state.model = "ckpt_model"

\* C10 as stated: after LoadCheckpoint the epoch, the optimizer state and the
\* last loss are those of the record, in every mode.
C10_RoundTripEveryMode ==
  c_setup_done =>
    /\ c_state.epoch = c_loaded.epoch
    /\ c_state.opt = c_loaded.opt
    /\ c_state.lloss = c_loaded.loss

\* C10 as amended: in every mode but INFERENCE the epoch, the optimizer state
\* and the last loss are those of the record; in INFERENCE mode only the
\* model parameters are loaded and the three keep what setup gave them
\* (config['epoch'] or 0, the new optimizer, no last loss).
C10_RoundTripUnlessInference ==
  c_setup_done =>
    /\ c_state.model = c_loaded.model
    /\ (c_mode # "INFERENCE" =>
          /\ c_state.epoch = c_loaded.epoch
          /\ c_state.opt = c_loaded.opt
          /\ c_state.lloss = c_loaded.loss)
    /\ (c_mode = "INFERENCE" =>
          /\ c_state.epoch = (IF c_cfg.epoch = NoInt THEN 0 ELSE c_cfg.epoch)
          /\ c_state.opt = "fresh"
          /\ c_state.lloss = "unset")

C10_Witness ==
  /\ c_setup_done
  /\ c_mode = "TRAIN"
  /\ c_cfg.epoch = 9
  /\ c_cfg.lr_scheduler = "OneCycleLR"
  /\ c_state = [model |-> "ckpt_model", epoch |-> 2, opt |-> "ckpt_opt_b",
                lloss |-> "ckpt_loss_b"]

\* C12: a call of MakeMade with special_orders 0 or 1 draws no permutation
\* and installs no ordering on the model.
C12_NoRandomizationUpToOne ==
  (o_pc = "done" /\ o_special <= 1) =>
    /\ o_orders = <<>>
    /\ ~o_has_orderings

\* C13: on the test split with a model of k > 1 orderings every batch is
\* forwarded k times, the loss is computed and the epoch returns its mean
\* loss.
C13_EnsembleForwardAtTest ==
  (t_split = "test" /\ t_nsamples > 1 /\ t_nbatches > 0 /\ t_upto = NoInt /\ ~t_instance) =>
    /\ t_error # "AssertionError"
    /\ (t_forwards # 0 => t_forwards = t_nsamples)
    /\ (t_pc = "returned" => t_ret = "mean" /\ t_nlosses = t_nbatches)

\* The contributions of steps lo..hi of an epoch, each the loss over w.
Window(epoch_num, lo, hi, w) == {<<epoch_num, s, w>> : s \in lo..hi}

\* C15: in the calls of a training step zero_grad comes only at the first
\* step of the epoch, before the backward pass, or right after an optimizer
\* step, which it always follows; and the gradient an optimizer step applies
\* is exactly the contributions, each scaled by 1/w, of the steps since the
\* previous optimizer step of the epoch or since the epoch's start.
C15_GradientZeroing ==
  /\ \A p \in 1..Len(t_events) :
       /\ (t_events[p] = "zero_grad" =>
             \/ (p > 1 /\ t_events[p - 1] = "opt_step")
             \/ (t_step = 1 /\ p < Len(t_events) /\ t_events[p + 1] = "backward"))
       /\ (t_events[p] = "opt_step" =>
             p < Len(t_events) /\ t_events[p + 1] = "zero_grad")
  /\ Len(t_applied) = Len(t_opt_steps)
  /\ \A p \in 1..Len(t_applied) :
       LET at == t_opt_steps[p]
           lo == IF p > 1 /\ t_opt_steps[p - 1][1] = at[1]
                   THEN t_opt_steps[p - 1][2] + 1 ELSE 0
       IN t_applied[p] = Window(at[1], lo, at[2], t_accum_iter)

C15_Witness ==
  /\ t_epoch_num = 1
  /\ t_accum_iter = 2
  /\ t_nbatches = 3
  /\ Len(t_applied) = 2
  /\ t_dropped = {<<0, 2, 2>>}
  /\ t_applied[2] = {<<1, 0, 2>>, <<1, 1, 2>>}

\* The contributions that some optimizer step applied.
Applied == UNION {t_applied[p] : p \in 1..Len(t_applied)}

\* C16: no backpropagated contribution is zeroed unapplied, each is applied
\* by one optimizer step only, and once the training run is over every
\* contribution has been applied.
C16_EveryContributionApplied ==
  t_split = "train" =>
    /\ t_dropped = {}
    /\ \A p, q \in 1..Len(t_applied) : p # q => t_applied[p] \cap t_applied[q] = {}
    /\ (t_pc = "returned" /\ t_epoch_num + 1 = t_epochs => Applied = t_backward)

\* C17: the rate of a training run is set by one policy only, and the
\* scheduler is never stepped in a run where the constant rate or the custom
\* schedule is the policy in force.
C17_OnePolicyPerRun ==
  /\ Cardinality(t_policies) <= 1
  /\ (t_policies \cap {"constant", "custom"} # {} => t_sched_steps = <<>>)

\* C18: a training epoch capped at upto = u with more than u batches
\* processes exactly u batches and writes the optimizer's rate once per
\* processed batch; the pass that detects the cap changes nothing.
C18_StepCap ==
  (t_split = "train" /\ t_pc = "returned" /\ t_upto # NoInt /\ t_upto < t_nbatches) =>
    /\ t_nlosses = t_upto
    /\ t_step = t_upto
    /\ Cardinality({c \in t_backward : c[1] = t_epoch_num}) = t_upto
    /\ t_events = <<>>
    /\ (LrPolicy(t_constant_lr, t_custom, t_sched_arg) # "scheduler" => t_lr_writes = t_upto)

\* The errors an estimator's log holds, in the order they were recorded.
LoggedErrs(log) == [p \in 1..Len(log) |-> log[p].err]

\* C14: the report evaluate() returns holds for every estimator exactly max,
\* p99, p95 and median of the errors the estimator recorded, with
\* max >= p99 >= p95 >= median, max the largest recorded error and median
\* the middle one of the sorted errors (the mean of the two middle ones for
\* an even count); errors [1, 1.05, 2] give max 2 and median 1.05, and
\* cardinality 1000 estimated as 950 gives error 1000/950.
C14_ReportAggregates ==
  /\ ErrorMetric(950, 1000) = <<20, 19>>
  /\ LET a == Aggregates(<<FracOfInt(1), Frac(105, 100), FracOfInt(2)>>)
     IN a.max = FracOfInt(2) /\ a.median = Frac(105, 100)
  /\ (c_results # <<>> =>
        /\ Len(c_results) = c_nest
        /\ \A e \in 1..c_nest :
             LET errs == LoggedErrs(c_errs[e])
                 n == Len(errs)
                 s == SortFracs(errs)
                 r == c_results[e]
             IN /\ DOMAIN r = {"max", "p99", "p95", "median"}
                /\ \E p \in 1..n : errs[p] = r.max
                /\ \A p \in 1..n : FracLeq(errs[p], r.max)
                /\ FracLeq(r.p99, r.max)
                /\ FracLeq(r.p95, r.p99)
                /\ FracLeq(r.median, r.p95)
                /\ r.p99 = Quantile(errs, 99, 100)
                /\ r.p95 = Quantile(errs, 95, 100)
                /\ (n % 2 = 1 => r.median = s[(n + 1) \div 2])
                /\ (n % 2 = 0 =>
                      r.median = FracMul(Frac(1, 2), FracAdd(s[n \div 2], s[(n \div 2) + 1]))))

C14_Witness ==
  /\ c_pc = "ready"
  /\ c_nest = 2
  /\ Len(c_results) = 2
  /\ LoggedErrs(c_errs[1]) = <<FracOfInt(3), FracOfInt(1), Frac(3, 2)>>
  /\ c_results[1].max = FracOfInt(3)
  /\ c_results[1].median = Frac(3, 2)
  /\ c_results[1].p95 = Frac(57, 20)

\* C19: every step of a step() call after setup leaves the model
\* parameters, the optimizer state, the epoch and the last loss of the
\* controller as they were, steps neither optimizer nor scheduler (no
\* training step runs), and a call that returns returns
\* {epoch: 0, done: True, results: the report of evaluate()}.
C19_StepIsPureEvaluation ==
  [][(c_setup_done /\ c_pc \in {"ready", "eval"}) =>
       /\ c_state' = c_state
       /\ c_lr_scheduler' = c_lr_scheduler
       /\ UNCHANGED trainVars
       /\ (c_steps' # c_steps =>
             /\ c_steps' = c_steps + 1
             /\ c_ret' = <<[epoch |-> 0, done |-> TRUE, results |-> c_results']>>)
       /\ (c_steps' = c_steps => c_ret' = c_ret \/ c_ret' = <<>>)]_vars

C19_Witness ==
  /\ c_steps = 2
  /\ c_mode = "TRAIN"
  /\ c_state = [model |-> "ckpt_model", epoch |-> 2, opt |-> "ckpt_opt_a",
                lloss |-> "ckpt_loss_a"]
  /\ c_ret # <<>>
  /\ c_ret[1].results # <<>>

\* C20: when evaluate() computes the aggregates every estimator's log holds
\* one entry for each query of the round, in order, and nothing else:
\* no entry of an earlier round and no second entry for a query.
C20_LogsHoldThisRoundOnly ==
  c_results # <<>> =>
    \A e \in 1..c_nest :
      /\ Len(c_errs[e]) = c_num_queries
      /\ \A p \in 1..Len(c_errs[e]) : c_errs[e][p].q = p - 1

\* C21: a query flagged as not supported in the workload does not stop
\* evaluate(): every estimator logs the not-supported code -1 for it, the
\* loop goes on with the next query and the report is returned.
C21_PreFlaggedQuerySkipped ==
  /\ c_error # "AssertionError: not_support_query_idx"
  /\ \A q \in c_workload.not_support :
       (c_pc \in {"eval", "eval_direct"} /\ q < c_i) =>
         \A e \in 1..c_nest : \E p \in 1..Len(c_errs[e]) :
           c_errs[e][p].q = q /\ c_errs[e][p].err = FracOfInt(-1)

\* C22 as stated: ErrorMetric over non-negative cardinalities is at least 1
\* and is 1 exactly when the two cardinalities are equal; the error Query
\* appends to a log is at least 1.
C22_OneOnlyWhenExact ==
  m_pc = "done" =>
    /\ FracLeq(FracOfInt(1), m_err)
    /\ (m_err = FracOfInt(1)) = (m_est = m_card)
    /\ LET log == QueryLogs(<<<<>>>>, 0, m_card, <<m_est>>, 0)[1]
       IN Len(log) = 1 /\ FracLeq(FracOfInt(1), log[1].err)

\* C22 as amended: ErrorMetric over non-negative cardinalities is at least
\* 1, is 1 when the two are equal, and is 1 for unequal ones only when one
\* is 0 and the other 1; the error Query appends to a log is the value of
\* ErrorMetric, so at least 1.
C22_AtLeastOne ==
  m_pc = "done" =>
    /\ FracLeq(FracOfInt(1), m_err)
    /\ (m_err = FracOfInt(1)) = (m_est = m_card \/ {m_est, m_card} = {0, 1})
    /\ LET log == QueryLogs(<<<<>>>>, 0, m_card, <<m_est>>, 0)[1]
       IN /\ Len(log) = 1
          /\ log[1].err = m_err
          /\ FracLeq(FracOfInt(1), log[1].err)

C22_Witness ==
  m_pc = "done" /\ m_est = 0 /\ m_card = 1 /\ m_err = FracOfInt(1)
====
